---- MODULE Spec2Model ----
(***************************************************************************)
(* State-machine model of the forwarding bot in src/main.py: the per-user  *)
(* JSON configuration files, the conversation handler, the per-user        *)
(* user_data dictionary, the Telethon clients created by set_credentials   *)
(* with the event handlers set_forwarding registers on them, and the       *)
(* dispatch of NewMessage events to those handlers, and the start of the   *)
(* process in main().                                                      *)
(*                                                                         *)
(* Text is a sequence of one-character strings.  A Python dict is a        *)
(* function whose DOMAIN is the set of keys present.  Keys of the nested   *)
(* forwarding_rules dict are tagged values (PyS: str, PyI: int) so that    *)
(* the JSON encoding, which turns every object key into a string, is not   *)
(* the identity.                                                           *)
(***************************************************************************)
EXTENDS Integers, Sequences, FiniteSets, TLC

VARIABLES
    file,        \* file[u]: data/<u>.json, [exists, doc]
    conv,        \* conv[u]: state of u's conversation (END: none active) in the
                 \* chat u is writing in
    other,       \* other[u]: state of u's conversation in u's other chat with the bot
    user_data,   \* user_data[u]: context.user_data of u, a dict
    clients,     \* clients[u]: the TelegramClient objects created for session_<u>
    authorized,  \* authorized[u]: the session file session_<u> holds a signed-in key
    process,     \* the bot process: position in main(), TOKEN set, web server started
    tasks,       \* tasks[u]: handler coroutines of u that are suspended at an await
    last         \* the last handler or event that ran, with its outcome

vars == <<file, conv, other, user_data, clients, authorized, process, tasks, last>>

----------------------------------------------------------------------------
(* Bounds of the model *)

MaxClients == 2      \* TelegramClient objects created per user
MaxHandlers == 2     \* event handlers registered per user
MaxTasks == 2        \* handler coroutines of one user suspended at the same time

Users == {1, 2}      \* user ids
\* The users whose updates Spec explores.  Every handler reads and writes only
\* the file, conversation, user_data and clients of update.effective_user.
Actors == {1}

----------------------------------------------------------------------------
(* Conversation states, main.py:26 *)

MAIN_MENU == 0
SET_CREDENTIALS == 1
SET_FORWARDING == 2
REMOVE_RULE == 3
VERIFY_CODE == 4
VERIFY_2FA == 5
REMOVE_RULE_10 == REMOVE_RULE + 10
END == -1

----------------------------------------------------------------------------
(* Python text primitives: str.strip, str.split, int(), str() *)

Whitespace == {" "}
Digits == {"0", "1", "2", "3", "4", "5", "6", "7", "8", "9"}

DigitValue(c) ==
    CASE c = "0" -> 0 [] c = "1" -> 1 [] c = "2" -> 2 [] c = "3" -> 3
      [] c = "4" -> 4 [] c = "5" -> 5 [] c = "6" -> 6 [] c = "7" -> 7
      [] c = "8" -> 8 [] c = "9" -> 9

DigitChar(n) ==
    CASE n = 0 -> "0" [] n = 1 -> "1" [] n = 2 -> "2" [] n = 3 -> "3"
      [] n = 4 -> "4" [] n = 5 -> "5" [] n = 6 -> "6" [] n = 7 -> "7"
      [] n = 8 -> "8" [] n = 9 -> "9"

RECURSIVE lstrip(_)
lstrip(s) ==
    IF s # <<>> /\ Head(s) \in Whitespace THEN lstrip(Tail(s)) ELSE s

RECURSIVE rstrip(_)
rstrip(s) ==
    IF s # <<>> /\ s[Len(s)] \in Whitespace
    THEN rstrip(SubSeq(s, 1, Len(s) - 1))
    ELSE s

strip(s) == rstrip(lstrip(s))

\* text.split(sep): the fields between the occurrences of sep
RECURSIVE split(_, _)
split(s, sep) ==
    IF \E i \in 1..Len(s) : s[i] = sep
    THEN LET i == CHOOSE i \in 1..Len(s) :
                      s[i] = sep /\ \A j \in 1..(i - 1) : s[j] # sep
         IN  <<SubSeq(s, 1, i - 1)>> \o split(SubSeq(s, i + 1, Len(s)), sep)
    ELSE <<s>>

\* [p.strip() for p in text.split(",")]
parts_of(text) ==
    LET fields == split(strip(text), ",")
    IN  [i \in 1..Len(fields) |-> strip(fields[i])]

\* the digits of int(s)'s argument, after whitespace and one sign are removed
int_body(s) ==
    LET t == strip(s)
    IN  IF t # <<>> /\ t[1] \in {"+", "-"} THEN Tail(t) ELSE t

\* int(s) raises ValueError unless s is an optionally signed run of digits
int_raises(s) ==
    int_body(s) = <<>> \/ \E i \in 1..Len(int_body(s)) : int_body(s)[i] \notin Digits

RECURSIVE digits_value(_)
digits_value(ds) ==
    IF ds = <<>> THEN 0
    ELSE 10 * digits_value(SubSeq(ds, 1, Len(ds) - 1)) + DigitValue(ds[Len(ds)])

int(s) ==
    LET t == strip(s)
    IN  IF t # <<>> /\ t[1] = "-"
        THEN 0 - digits_value(int_body(s))
        ELSE digits_value(int_body(s))

RECURSIVE digits_of(_)
digits_of(n) ==
    IF n < 10 THEN <<DigitChar(n)>>
    ELSE digits_of(n \div 10) \o <<DigitChar(n % 10)>>

str(n) == IF n < 0 THEN <<"-">> \o digits_of(0 - n) ELSE digits_of(n)

----------------------------------------------------------------------------
(* Python dict and list primitives *)

EmptyDict == [k \in {} |-> 0]

dict_set(d, k, v) == [x \in (DOMAIN d) \cup {k} |-> IF x = k THEN v ELSE d[x]]

dict_pop(d, k) == [x \in (DOMAIN d) \ {k} |-> d[x]]

\* d.get(k) of an int-valued key is truthy: present and not 0
truthy_int(d, k) == k \in DOMAIN d /\ d[k] # 0

\* d.get(k) of a str-valued key is truthy: present and not the empty string
truthy_str(d, k) == k \in DOMAIN d /\ d[k] # <<>>

list_contains(l, x) == \E i \in 1..Len(l) : l[i] = x

\* list.remove(x): drops the first occurrence of x
list_remove(l, x) ==
    LET i == CHOOSE i \in 1..Len(l) : l[i] = x /\ \A j \in 1..(i - 1) : l[j] # x
    IN  SubSeq(l, 1, i - 1) \o SubSeq(l, i + 1, Len(l))

\* tagged keys of the forwarding_rules dict
PyS(s) == [t |-> "str", s |-> s, n |-> 0]
PyI(n) == [t |-> "int", s |-> <<>>, n |-> n]

----------------------------------------------------------------------------
(* The configuration files: json.dump / json.load, main.py:46-66 *)

NoFile == [exists |-> FALSE, doc |-> EmptyDict]

\* JSON object keys are strings: json.dump writes an int key k as str(k)
json_key(k) == IF k.t = "int" THEN str(k.n) ELSE k.s

json_dump_rules(rules) ==
    [jk \in {json_key(k) : k \in DOMAIN rules} |->
        LET k == CHOOSE k \in DOMAIN rules : json_key(k) = jk
        IN  [j |-> "array", v |-> rules[k]]]

json_dump(config) ==
    [k \in DOMAIN config |->
        IF k = "api_id" THEN [j |-> "number", v |-> config[k]]
        ELSE IF k = "forwarding_rules"
             THEN [j |-> "object", v |-> json_dump_rules(config[k])]
             ELSE [j |-> "string", v |-> config[k]]]

json_load_rules(obj) ==
    [k \in {PyS(jk) : jk \in DOMAIN obj} |-> obj[k.s].v]

json_load(doc) ==
    [k \in DOMAIN doc |->
        IF doc[k].j = "object" THEN json_load_rules(doc[k].v) ELSE doc[k].v]

\* load_user_config(user_id) on the file store f
load_user_config(f, user_id) ==
    IF f[user_id].exists THEN json_load(f[user_id].doc) ELSE EmptyDict

\* save_user_config that writes every user's document to the file of user 1
save_user_config_one_file(f, user_id, config) ==
    [f EXCEPT ![1] = [exists |-> TRUE, doc |-> json_dump(config)]]

\* the file store after save_user_config(user_id, config)
save_user_config(f, user_id, config) ==
    [f EXCEPT ![user_id] = [exists |-> TRUE, doc |-> json_dump(config)]]

----------------------------------------------------------------------------
(* What the handlers do to a loaded configuration *)

\* set_credentials, main.py:246: both stored values are truthy
credentials_stored(config) ==
    truthy_int(config, "api_id") /\ truthy_str(config, "api_hash")

\* set_credentials, main.py:247
credentials_differ(config, api_id, api_hash) ==
    config["api_id"] # api_id \/ config["api_hash"] # api_hash

\* set_credentials_config that starts the Rule Set anew
set_credentials_config_resets_rules(config, api_id, api_hash, phone) ==
    [api_id |-> api_id, api_hash |-> api_hash, phone |-> phone,
     forwarding_rules |-> EmptyDict]

\* set_credentials, main.py:251-255
set_credentials_config(config, api_id, api_hash, phone) ==
    LET c1 == dict_set(config, "api_id", api_id)
        c2 == dict_set(c1, "api_hash", api_hash)
        c3 == dict_set(c2, "phone", phone)
    IN  IF "forwarding_rules" \in DOMAIN c3
        THEN c3
        ELSE dict_set(c3, "forwarding_rules", EmptyDict)

\* src_key_of without str(): the int itself as the key
src_key_of_int(source_id) == PyI(source_id)

\* src_key = str(source_id), main.py:380 and 430
src_key_of(source_id) == PyS(str(source_id))

\* add_to_rules without the membership test of main.py:382
add_to_rules_always_appends(rules, src_key, dest_id) ==
    IF src_key \in DOMAIN rules
    THEN dict_set(rules, src_key, Append(rules[src_key], dest_id))
    ELSE dict_set(rules, src_key, <<dest_id>>)

\* the destination list after main.py:381-385
add_to_rules(rules, src_key, dest_id) ==
    IF src_key \in DOMAIN rules
    THEN IF ~list_contains(rules[src_key], dest_id)
         THEN dict_set(rules, src_key, Append(rules[src_key], dest_id))
         ELSE rules
    ELSE dict_set(rules, src_key, <<dest_id>>)

\* set_forwarding, main.py:378-385
set_forwarding_config(config, source_id, dest_id) ==
    LET c0 == IF "forwarding_rules" \notin DOMAIN config
              THEN dict_set(config, "forwarding_rules", EmptyDict)
              ELSE config
    IN  dict_set(c0, "forwarding_rules",
                 add_to_rules(c0["forwarding_rules"], src_key_of(source_id), dest_id))

\* config.get("forwarding_rules", {}), main.py:96, 429, 467
rules_of(config) ==
    IF "forwarding_rules" \in DOMAIN config THEN config["forwarding_rules"] ELSE EmptyDict

\* remove_from_rules without the deletion of an emptied key, main.py:477-478
remove_from_rules_keeps_key(rules, src_key, dest_id) ==
    dict_set(rules, src_key, list_remove(rules[src_key], dest_id))

\* the rules after main.py:476-478
remove_from_rules(rules, src_key, dest_id) ==
    LET dests == list_remove(rules[src_key], dest_id)
    IN  IF dests = <<>> THEN dict_pop(rules, src_key) ELSE dict_set(rules, src_key, dests)

\* remove_destination, main.py:471-478
remove_destination_config(config, src_key, dest_id) ==
    dict_set(config, "forwarding_rules",
             remove_from_rules(config["forwarding_rules"], src_key, dest_id))

----------------------------------------------------------------------------
(* Inputs *)

CredentialTexts ==
    { <<"1", ",", "a", ",", "5">>,          \* 1,a,5
      <<"2", ",", " ", "a", ",", "5">>,     \* "2, a,5": another api_id
      <<"1", ",", "a">> }                   \* two fields only

RuleTexts ==
    { <<"1", ",", "1">>,                    \* 1,1
      <<"1", ",", " ", "2">>,               \* "1, 2"
      <<"1">>,                              \* one field only
      <<"x", ",", "1">> }                   \* not an integer

SourceTexts == { <<"1">>, <<" ", "+", "1">>, <<"-", "2">>, <<"x">> }

DestTexts == { <<"1">>, <<"0", "2">>, <<"x">> }

SentCode == <<"7">>          \* the code the platform sent
CodeTexts == { <<"7">>, <<"8">> }

Password == <<"p">>          \* the account's two-step password
PasswordTexts == { <<"p">>, <<"q">> }

MenuChoices == {"set_creds", "set_forward", "remove_rule", "list_chats", "menu_exit"}

Chats == {1, -2}             \* chats on which the platform delivers messages
Dests == {1, 2}

\* what the platform answers to the calls of set_credentials
NetOutcomes == {"ok", "connect_raises", "send_code_request_raises", "get_me_none"}

\* what the platform answers to sign_in with the code it sent
SignInOutcomes == {"signed_in", "password_needed"}

----------------------------------------------------------------------------
(* State *)

\* the record of the last step
Ran(op, u, res, note) ==
    [op |-> op, user |-> u, res |-> res, note |-> note, retry |-> FALSE,
     chat |-> 0, failing |-> {}, relays |-> <<>>]

NewClient == [handlers |-> <<>>]

\* the process before main() runs; token: the environment holds TOKEN
NewProcess(token) == [pc |-> "start_webserver", token |-> token, webserver |-> FALSE]

Init ==
    /\ file = [u \in Users |-> NoFile]
    /\ conv = [u \in Users |-> END]
    /\ other = [u \in Users |-> END]
    /\ user_data = [u \in Users |-> EmptyDict]
    /\ clients = [u \in Users |-> <<>>]
    /\ authorized = [u \in Users |-> FALSE]
    /\ process \in {NewProcess(token) : token \in BOOLEAN}
    /\ tasks = [u \in Users |-> <<>>]
    /\ last = Ran("init", 0, "", "")

----------------------------------------------------------------------------
(* The process, main.py:77-83 and 508-521 *)

\* main.py:510: start_webserver() starts the thread that serves "/"
start_webserver ==
    /\ process.pc = "start_webserver"
    /\ process' = [process EXCEPT !.pc = "token", !.webserver = TRUE]
    /\ last' = Ran("start_webserver", 0, "", "")
    /\ UNCHANGED <<file, conv, other, user_data, clients, authorized, tasks>>

\* main.py:511-521: without TOKEN main logs an error and returns, and the
\* web server thread goes on serving; with TOKEN the bot polls for updates
main ==
    /\ process.pc = "token"
    /\ process' = [process EXCEPT !.pc = IF process.token THEN "run_polling" ELSE "returned"]
    /\ last' = Ran("main", 0, IF process.token THEN "polling" ELSE "no_token", "")
    /\ UNCHANGED <<file, conv, other, user_data, clients, authorized, tasks>>

\* the process is stopped and started again: conversations, user_data and the
\* client objects are gone, the files of data/ and the session files stay
restart ==
    /\ process.pc \in {"run_polling", "returned"}
    /\ process' = NewProcess(process.token)
    /\ conv' = [u \in Users |-> END]
    /\ other' = [u \in Users |-> END]
    /\ user_data' = [u \in Users |-> EmptyDict]
    /\ clients' = [u \in Users |-> <<>>]
    /\ tasks' = [u \in Users |-> <<>>]
    /\ last' = Ran("restart", 0, "", "")
    /\ UNCHANGED <<file, authorized>>

----------------------------------------------------------------------------
(* The conversation: entry point, fallback and menu, main.py:88-214, 491-503 *)

\* /start while no conversation is active: start -> send_main_menu
start(u) ==
    /\ conv[u] = END
    /\ conv' = [conv EXCEPT ![u] = MAIN_MENU]
    /\ last' = Ran("start", u, "menu", "")
    /\ UNCHANGED <<file, user_data, clients, authorized>>

\* /cancel in any state of an active conversation: the fallback runs start
cancel(u) ==
    /\ conv[u] # END
    /\ conv' = [conv EXCEPT ![u] = MAIN_MENU]
    /\ last' = Ran("cancel", u, "menu", "")
    /\ UNCHANGED <<file, user_data, clients, authorized>>

\* ConversationHandler keeps one conversation for each (chat, user) pair,
\* main.py:491-503: u turns to the other chat in which u talks to the bot
switch_chat(u) ==
    /\ process.pc = "run_polling"
    /\ conv' = [conv EXCEPT ![u] = other[u]]
    /\ other' = [other EXCEPT ![u] = conv[u]]
    /\ last' = Ran("switch_chat", u, "", "")
    /\ UNCHANGED <<file, user_data, clients, authorized, process, tasks>>

\* list_chats: every path returns MAIN_MENU; the cached client is read only
list_chats(u) ==
    IF "telethon_client" \notin DOMAIN user_data[u] THEN "no_client" ELSE "listed"

menu_choice(u, choice) ==
    /\ conv[u] = MAIN_MENU
    /\ conv' = [conv EXCEPT ![u] =
                  CASE choice = "set_creds" -> SET_CREDENTIALS
                    [] choice = "set_forward" -> SET_FORWARDING
                    [] choice = "remove_rule" -> REMOVE_RULE
                    [] choice = "list_chats" -> MAIN_MENU
                    [] choice = "menu_exit" -> END]
    /\ last' = Ran("menu_choice", u, choice,
                   IF choice = "list_chats" THEN list_chats(u) ELSE "")
    /\ UNCHANGED <<file, user_data, clients, authorized>>

----------------------------------------------------------------------------
(* set_credentials, main.py:219-280 *)

\* is_user_authorized that reports every client as signed in
is_user_authorized_unchecked(u) == TRUE

\* await client.is_user_authorized(), main.py:261: the session file of u
\* holds a signed-in key
is_user_authorized(u) == authorized[u]

\* main.py:258-276: a new client is created and connected; the session file
\* decides whether a code is requested or the client is cached at once
connect_client(u, phone, net) ==
    IF net = "connect_raises"
    THEN /\ conv' = [conv EXCEPT ![u] = SET_CREDENTIALS]
         /\ last' = Ran("set_credentials", u, "error", "connect")
         /\ UNCHANGED <<user_data, clients, authorized>>
    ELSE /\ Len(clients[u]) < MaxClients
         /\ clients' = [clients EXCEPT ![u] = Append(@, NewClient)]
         /\ UNCHANGED authorized
         /\ LET client == Len(clients[u]) + 1
            IN  IF ~is_user_authorized(u)
                THEN IF net = "send_code_request_raises"
                     THEN /\ conv' = [conv EXCEPT ![u] = SET_CREDENTIALS]
                          /\ last' = Ran("set_credentials", u, "error", "send_code_request")
                          /\ UNCHANGED user_data
                     ELSE /\ user_data' = [user_data EXCEPT ![u] =
                                 dict_set(dict_set(@, "temp_client", client), "phone", phone)]
                          /\ conv' = [conv EXCEPT ![u] = VERIFY_CODE]
                          /\ last' = Ran("set_credentials", u, "code_sent", "")
                ELSE IF net = "get_me_none"
                     THEN /\ conv' = [conv EXCEPT ![u] = SET_CREDENTIALS]
                          /\ last' = Ran("set_credentials", u, "no_account_info", "")
                          /\ UNCHANGED user_data
                     ELSE /\ user_data' = [user_data EXCEPT ![u] =
                                 dict_set(@, "telethon_client", client)]
                          /\ conv' = [conv EXCEPT ![u] = MAIN_MENU]
                          /\ last' = Ran("set_credentials", u, "client_started", "")

set_credentials(u, text, net) ==
    /\ conv[u] = SET_CREDENTIALS
    /\ LET parts == parts_of(text)
       IN  IF Len(parts) # 3 \/ int_raises(parts[1])
           THEN \* ValueError, caught at main.py:277
                /\ conv' = [conv EXCEPT ![u] = SET_CREDENTIALS]
                /\ last' = Ran("set_credentials", u, "error", "format")
                /\ UNCHANGED <<file, user_data, clients, authorized>>
           ELSE LET api_id == int(parts[1])
                    api_hash == parts[2]
                    phone == parts[3]
                    config == load_user_config(file, u)
                IN  IF credentials_stored(config)
                    THEN IF credentials_differ(config, api_id, api_hash)
                         THEN /\ conv' = [conv EXCEPT ![u] = SET_CREDENTIALS]
                              /\ last' = Ran("set_credentials", u, "mismatch", "")
                              /\ UNCHANGED <<file, user_data, clients, authorized>>
                         ELSE /\ UNCHANGED file
                              /\ connect_client(u, phone, net)
                    ELSE /\ file' = save_user_config(file, u,
                                       set_credentials_config(config, api_id, api_hash, phone))
                         /\ connect_client(u, phone, net)

----------------------------------------------------------------------------
(* verify_code and verify_2fa, main.py:285-350 *)

\* main.py:300 and 337: not client or not phone
login_expired(ud) ==
    "temp_client" \notin DOMAIN ud \/ ~truthy_str(ud, "phone")

\* cache_client that drops the pending login without caching the client
cache_client_forgets(ud) == dict_pop(dict_pop(ud, "temp_client"), "phone")

\* main.py:309-311 and 342-344
cache_client(ud) ==
    dict_pop(dict_pop(dict_set(ud, "telethon_client", ud["temp_client"]),
                      "temp_client"), "phone")

\* the record of a verify_code step; retry: it directly follows a code of the
\* same user that sign_in rejected
RanCode(u, res, note) ==
    [Ran("verify_code", u, res, note) EXCEPT
        !.retry = (last.op = "verify_code" /\ last.user = u /\ last.res = "error")]

verify_code(u, text, answer) ==
    /\ conv[u] = VERIFY_CODE
    /\ LET code == strip(text)
       IN  IF login_expired(user_data[u])
           THEN /\ conv' = [conv EXCEPT ![u] = MAIN_MENU]
                /\ last' = RanCode(u, "expired",
                               IF code = SentCode THEN "correct_code" ELSE "wrong_code")
                /\ UNCHANGED <<file, user_data, clients, authorized>>
           ELSE IF code # SentCode
           THEN \* sign_in raises, caught at main.py:314
                /\ conv' = [conv EXCEPT ![u] = VERIFY_CODE]
                /\ last' = RanCode(u, "error", "wrong_code")
                /\ UNCHANGED <<file, user_data, clients, authorized>>
           ELSE IF answer = "password_needed"
           THEN \* SessionPasswordNeededError, main.py:305
                /\ conv' = [conv EXCEPT ![u] = VERIFY_2FA]
                /\ last' = RanCode(u, "password_needed", "correct_code")
                /\ UNCHANGED <<file, user_data, clients, authorized>>
           ELSE /\ user_data' = [user_data EXCEPT ![u] = cache_client(@)]
                /\ authorized' = [authorized EXCEPT ![u] = TRUE]
                /\ conv' = [conv EXCEPT ![u] = MAIN_MENU]
                /\ last' = RanCode(u, "signed_in", "correct_code")
                /\ UNCHANGED <<file, clients>>

\* the record of a verify_2fa step; retry: it directly follows a password of
\* the same user that sign_in rejected
RanPassword(u, res, note) ==
    [Ran("verify_2fa", u, res, note) EXCEPT
        !.retry = (last.op = "verify_2fa" /\ last.user = u /\ last.res = "error")]

verify_2fa(u, text) ==
    /\ conv[u] = VERIFY_2FA
    /\ LET password == strip(text)
       IN  IF login_expired(user_data[u])
           THEN /\ conv' = [conv EXCEPT ![u] = MAIN_MENU]
                /\ last' = RanPassword(u, "expired",
                               IF password = Password THEN "correct_password"
                               ELSE "wrong_password")
                /\ UNCHANGED <<file, user_data, clients, authorized>>
           ELSE IF password # Password
           THEN \* sign_in raises, caught at main.py:347
                /\ conv' = [conv EXCEPT ![u] = VERIFY_2FA]
                /\ last' = RanPassword(u, "error", "wrong_password")
                /\ UNCHANGED <<file, user_data, clients, authorized>>
           ELSE /\ user_data' = [user_data EXCEPT ![u] = cache_client(@)]
                /\ authorized' = [authorized EXCEPT ![u] = TRUE]
                /\ conv' = [conv EXCEPT ![u] = MAIN_MENU]
                /\ last' = RanPassword(u, "signed_in", "correct_password")
                /\ UNCHANGED <<file, clients>>

----------------------------------------------------------------------------
(* set_forwarding, main.py:355-409 *)

\* what main.py:381-385 did to the destination list, for the record
rule_note(config, source_id, dest_id) ==
    IF src_key_of(source_id) \notin DOMAIN rules_of(config) THEN "created"
    ELSE IF list_contains(rules_of(config)[src_key_of(source_id)], dest_id)
         THEN "present"
         ELSE "appended"

\* @client.on(events.NewMessage(chats=source_id)), main.py:393: one more
\* handler, closed over source_id and dest_id, at the end of the client's list
client_on(client, source_id, dest_id) ==
    [client EXCEPT !.handlers = Append(@, [chats |-> source_id, dest |-> dest_id])]

\* the number of handlers registered on the clients cs[c], cs[c + 1], ...
RECURSIVE registered(_, _)
registered(cs, c) ==
    IF c > Len(cs) THEN 0 ELSE Len(cs[c].handlers) + registered(cs, c + 1)

\* the file store after set_forwarding(text) of user u, main.py:364-386
set_forwarding_file(f, u, text) ==
    LET parts == parts_of(text)
    IN  IF Len(parts) # 2 \/ int_raises(parts[1]) \/ int_raises(parts[2])
        THEN f
        ELSE save_user_config(f, u,
                 set_forwarding_config(load_user_config(f, u), int(parts[1]), int(parts[2])))

set_forwarding(u, text) ==
    /\ conv[u] = SET_FORWARDING
    /\ file' = set_forwarding_file(file, u, text)
    /\ LET parts == parts_of(text)
       IN  IF Len(parts) # 2 \/ int_raises(parts[1]) \/ int_raises(parts[2])
           THEN \* ValueError, main.py:403
                /\ conv' = [conv EXCEPT ![u] = SET_FORWARDING]
                /\ last' = Ran("set_forwarding", u, "error", "format")
                /\ UNCHANGED <<user_data, clients, authorized>>
           ELSE LET source_id == int(parts[1])
                    dest_id == int(parts[2])
                    config == load_user_config(file, u)
                    note == rule_note(config, source_id, dest_id)
                IN  /\ conv' = [conv EXCEPT ![u] = MAIN_MENU]
                    /\ UNCHANGED <<user_data, authorized>>
                    /\ IF "telethon_client" \notin DOMAIN user_data[u]
                       THEN /\ last' = Ran("set_forwarding", u, "no_client", note)
                            /\ UNCHANGED clients
                       ELSE LET c == user_data[u]["telethon_client"]
                            IN  /\ registered(clients[u], 1) < MaxHandlers
                                /\ clients' = [clients EXCEPT ![u][c] =
                                                  client_on(@, source_id, dest_id)]
                                /\ last' = Ran("set_forwarding", u, "registered", note)

----------------------------------------------------------------------------
(* remove_rule and remove_destination, main.py:414-486 *)

\* source_known that takes every source for one of the Rule Set
source_known_unchecked(rules, src_key) == TRUE

\* main.py:431: src_key is a key of the Rule Set
source_known(rules, src_key) == src_key \in DOMAIN rules

remove_rule(u, text) ==
    /\ conv[u] = REMOVE_RULE
    /\ UNCHANGED <<file, clients, authorized>>
    /\ IF int_raises(text)
       THEN \* ValueError, main.py:441
            /\ conv' = [conv EXCEPT ![u] = REMOVE_RULE]
            /\ last' = Ran("remove_rule", u, "error", "format")
            /\ UNCHANGED user_data
       ELSE LET src_key == src_key_of(int(text))
                rules == rules_of(load_user_config(file, u))
            IN  IF ~source_known(rules, src_key)
                THEN /\ conv' = [conv EXCEPT ![u] = REMOVE_RULE]
                     /\ last' = Ran("remove_rule", u, "no_rule", "")
                     /\ UNCHANGED user_data
                ELSE /\ user_data' = [user_data EXCEPT ![u] =
                                         dict_set(@, "remove_source", src_key)]
                     /\ conv' = [conv EXCEPT ![u] = REMOVE_RULE_10]
                     /\ last' = Ran("remove_rule", u, "ask_destination", "")

remove_destination(u, text) ==
    /\ conv[u] = REMOVE_RULE_10
    /\ UNCHANGED <<user_data, clients, authorized>>
    /\ IF int_raises(text)
       THEN \* ValueError, main.py:482
            /\ conv' = [conv EXCEPT ![u] = REMOVE_RULE_10]
            /\ last' = Ran("remove_destination", u, "error", "format")
            /\ UNCHANGED file
       ELSE LET dest_id == int(text)
                config == load_user_config(file, u)
            IN  IF \/ "remove_source" \notin DOMAIN user_data[u]
                   \/ user_data[u]["remove_source"] \notin DOMAIN rules_of(config)
                THEN /\ conv' = [conv EXCEPT ![u] = MAIN_MENU]
                     /\ last' = Ran("remove_destination", u, "no_source", "")
                     /\ UNCHANGED file
                ELSE LET src_key == user_data[u]["remove_source"]
                     IN  IF ~list_contains(config["forwarding_rules"][src_key], dest_id)
                         THEN /\ conv' = [conv EXCEPT ![u] = REMOVE_RULE_10]
                              /\ last' = Ran("remove_destination", u, "not_set", "")
                              /\ UNCHANGED file
                         ELSE /\ file' = save_user_config(file, u,
                                    remove_destination_config(config, src_key, dest_id))
                              /\ conv' = [conv EXCEPT ![u] = MAIN_MENU]
                              /\ last' = Ran("remove_destination", u, "removed",
                                             IF Len(config["forwarding_rules"][src_key]) = 1
                                             THEN "last" ELSE "")

----------------------------------------------------------------------------
(* Dispatch of a NewMessage event to the registered handlers, main.py:393-399 *)

\* forward_handler: one relay attempt; a failing forward_messages is caught
\* and logged at main.py:398, so the handler never raises
forward_handler(c, handler, failing) ==
    [client |-> c, dest |-> handler.dest,
     ok |-> handler.dest \notin failing, raised |-> FALSE]

\* the handlers of one client whose chats filter matches, in registration order
RECURSIVE run_handlers(_, _, _, _)
run_handlers(c, handlers, chat, failing) ==
    IF handlers = <<>> THEN <<>>
    ELSE (IF Head(handlers).chats = chat
          THEN <<forward_handler(c, Head(handlers), failing)>>
          ELSE <<>>)
         \o run_handlers(c, Tail(handlers), chat, failing)

\* every connected client of the session receives the update
RECURSIVE dispatch(_, _, _, _)
dispatch(cs, c, chat, failing) ==
    IF c > Len(cs) THEN <<>>
    ELSE run_handlers(c, cs[c].handlers, chat, failing)
         \o dispatch(cs, c + 1, chat, failing)

\* the platform delivers a new message of `chat` to u's signed-in session;
\* forward_messages fails for the destinations in `failing`
new_message(u, chat, failing) ==
    /\ authorized[u]
    /\ clients[u] # <<>>
    /\ last' = [op |-> "new_message", user |-> u, res |-> "", note |-> "", retry |-> FALSE,
                chat |-> chat, failing |-> failing,
                relays |-> dispatch(clients[u], 1, chat, failing)]
    /\ UNCHANGED <<file, conv, user_data, clients, authorized>>

----------------------------------------------------------------------------
(* Specification *)

\* run_polling, main.py:521: updates are handled one at a time while the
\* process polls, each handler running to its return before the next update
\* is taken; a handler touches the conversation of the update's chat only
polling(handler) ==
    /\ process.pc = "run_polling"
    /\ handler
    /\ UNCHANGED <<other, process, tasks>>

Next ==
    \/ start_webserver
    \/ main
    \/ restart
    \/ \E u \in Actors :
        \/ polling(start(u))
        \/ polling(cancel(u))
        \/ \E choice \in MenuChoices : polling(menu_choice(u, choice))
        \/ \E text \in CredentialTexts, net \in NetOutcomes :
              polling(set_credentials(u, text, net))
        \/ \E text \in CodeTexts, answer \in SignInOutcomes :
              polling(verify_code(u, text, answer))
        \/ \E text \in PasswordTexts : polling(verify_2fa(u, text))
        \/ \E text \in RuleTexts : polling(set_forwarding(u, text))
        \/ \E text \in SourceTexts : polling(remove_rule(u, text))
        \/ \E text \in DestTexts : polling(remove_destination(u, text))
        \/ \E chat \in Chats, failing \in SUBSET Dests :
              polling(new_message(u, chat, failing))

Spec == Init /\ [][Next]_vars

----------------------------------------------------------------------------
(* Rule Store properties *)

\* the persisted Rule Set of user u
persisted_rules(u) == rules_of(load_user_config(file, u))

\* C1: adding a destination is idempotent: from every reachable file store, for
\* every user and every input 'S,D', running set_forwarding a second time with
\* the same input leaves the file as the first run left it.
C1_AddRuleIdempotent ==
    \A u \in Users, text \in RuleTexts :
        LET once == set_forwarding_file(file, u, text)
        IN  set_forwarding_file(once, u, text) = once

\* C1 witness: set_forwarding has just run with a destination that was already
\* listed under its source
C1_Witness ==
    /\ last.op = "set_forwarding"
    /\ last.note = "present"
    /\ persisted_rules(last.user) # EmptyDict

\* C2: no source key of any user's persisted forwarding_rules maps to an empty
\* list, and when remove_destination has removed the last destination of a
\* source, the source key is gone.
C2_NoEmptyDestinationList ==
    /\ \A u \in Users : \A k \in DOMAIN persisted_rules(u) : persisted_rules(u)[k] # <<>>
    /\ (last.op = "remove_destination" /\ last.res = "removed" /\ last.note = "last")
          => user_data[last.user]["remove_source"] \notin DOMAIN persisted_rules(last.user)

\* C2 witness: remove_destination has just removed the last destination of a source
C2_Witness ==
    /\ last.op = "remove_destination"
    /\ last.res = "removed"
    /\ last.note = "last"

\* the configurations the handlers can pass to save_user_config for user u
\* (main.py:256, 386, 479), and the one now on disk
saved_configs(u) ==
    LET config == load_user_config(file, u)
    IN  {config}
        \cup {set_credentials_config(config, api_id, <<"a">>, <<"5">>) : api_id \in {1, 2}}
        \cup {set_forwarding_config(config, source_id, dest_id) :
                 source_id \in Chats, dest_id \in Dests}
        \cup {remove_destination_config(config, k, rules_of(config)[k][1]) :
                 k \in DOMAIN rules_of(config)}

\* C3: a configuration saved for a user is loaded back unchanged, and loading
\* the configuration of a user without a file gives the empty configuration.
C3_SaveLoadRoundTrip ==
    \A u \in Users :
        /\ \A config \in saved_configs(u) :
               load_user_config(save_user_config(file, u, config), u) = config
        /\ ~file[u].exists => load_user_config(file, u) = EmptyDict

\* C3 witness: a file holding credentials and a rule has been saved
C3_Witness ==
    \E u \in Users :
        /\ file[u].exists
        /\ "api_id" \in DOMAIN file[u].doc
        /\ persisted_rules(u) # EmptyDict

----------------------------------------------------------------------------
(* Login properties *)

\* the step is verify_code of user u, given a code of the kind `note`
verify_code_step(u, note) ==
    last'.op = "verify_code" /\ last'.user = u /\ last'.note = note

\* a wrong code changes nothing of u's login: the conversation stays in
\* VERIFY_CODE, user_data keeps temp_client and phone and gains no
\* telethon_client, and no client is created or signed in
wrong_code_keeps_login(u) ==
    verify_code_step(u, "wrong_code") =>
        /\ conv'[u] = VERIFY_CODE
        /\ user_data'[u] = user_data[u]
        /\ {"temp_client", "phone"} \subseteq DOMAIN user_data'[u]
        /\ clients' = clients
        /\ authorized' = authorized

\* the step is verify_code of u with the correct code, right after a wrong one
correct_after_wrong(u) ==
    /\ last.op = "verify_code" /\ last.user = u /\ last.res = "error"
    /\ verify_code_step(u, "correct_code")

\* the pending client of u has become u's cached, signed-in session
signed_in_now(u) ==
    /\ conv'[u] = MAIN_MENU
    /\ "telethon_client" \in DOMAIN user_data'[u]
    /\ user_data'[u]["telethon_client"] = user_data[u]["temp_client"]
    /\ authorized'[u]

\* C4 as claimed: a wrong code leaves the login at CodeSent with no cached
\* session, and the correct code submitted right after it yields an
\* authenticated cached session.
C4_AsClaimed ==
    [][\A u \in Users :
          /\ wrong_code_keeps_login(u)
          /\ correct_after_wrong(u) => signed_in_now(u)]_vars

\* C4 as amended: a wrong code leaves the login at CodeSent with no cached
\* session; the correct code submitted right after it yields an authenticated
\* cached session, unless the platform asks for the two-step password: then
\* the conversation moves to VERIFY_2FA, the pending client and phone are kept
\* and no session is cached yet.
C4_WrongCodeThenCorrectCode ==
    [][\A u \in Users :
          /\ wrong_code_keeps_login(u)
          /\ correct_after_wrong(u) =>
                \/ last'.res = "signed_in" /\ signed_in_now(u)
                \/ /\ last'.res = "password_needed"
                   /\ conv'[u] = VERIFY_2FA
                   /\ user_data'[u] = user_data[u]
                   /\ authorized' = authorized]_vars

\* C4 witness: the correct code, submitted right after a wrong one, has signed
\* the user in
C4_Witness ==
    \E u \in Users :
        /\ last.op = "verify_code" /\ last.user = u /\ last.res = "signed_in"
        /\ last.retry
        /\ conv[u] = MAIN_MENU
        /\ "telethon_client" \in DOMAIN user_data[u]
        /\ "temp_client" \notin DOMAIN user_data[u]

\* C10 as claimed: set_credentials with matching credentials, run for a user
\* who has a cached session, keeps the cached client handle and creates no
\* new client.
C10_AsClaimed ==
    [][\A u \in Users :
          (/\ "telethon_client" \in DOMAIN user_data[u]
           /\ last'.op = "set_credentials" /\ last'.user = u
           /\ last'.res # "mismatch" /\ last'.note # "format")
          => /\ "telethon_client" \in DOMAIN user_data'[u]
             /\ user_data'[u]["telethon_client"] = user_data[u]["telethon_client"]
             /\ clients' = clients]_vars

----------------------------------------------------------------------------
(* Listener and dispatch properties *)

\* the handlers registered on any client of u for the chat
listeners(u, chat) ==
    {<<c, i>> \in (DOMAIN clients[u]) \X (1..MaxHandlers) :
        i \in DOMAIN clients[u][c].handlers /\ clients[u][c].handlers[i].chats = chat}

\* the destinations persisted for u under the source `chat`
persisted_dests(u, chat) ==
    IF src_key_of(chat) \in DOMAIN persisted_rules(u)
    THEN {persisted_rules(u)[src_key_of(chat)][i] :
             i \in DOMAIN persisted_rules(u)[src_key_of(chat)]}
    ELSE {}

\* the relay attempts of the last event that went to dest
relays_to(dest) == {i \in DOMAIN last.relays : last.relays[i].dest = dest}

\* C5 as claimed: for a user with a cached session and two destinations D1, D2
\* persisted under S, an event on S whose relay to D2 fails is still relayed to
\* D1, and no handler raises.
C5_AsClaimed ==
    last.op = "new_message" =>
        /\ \A i \in DOMAIN last.relays : ~last.relays[i].raised
        /\ "telethon_client" \in DOMAIN user_data[last.user] =>
              \A d1, d2 \in persisted_dests(last.user, last.chat) :
                  (d1 # d2 /\ d2 \in last.failing /\ d1 \notin last.failing)
                  => \E i \in relays_to(d1) : last.relays[i].ok

\* The isolation that forward_handler's try/except gives: a destination that
\* has a handler for the chat on some client of the user, and whose relay does
\* not fail, is relayed to, whatever the other relays of the event do.
dispatch_isolated ==
    last.op = "new_message" =>
        \A l \in listeners(last.user, last.chat) :
            LET dest == clients[last.user][l[1]].handlers[l[2]].dest
            IN  dest \notin last.failing => \E i \in relays_to(dest) : last.relays[i].ok

\* C6 as claimed: at most one listener per (user, source_id).
C6_AsClaimed ==
    \A u \in Users, chat \in Chats : Cardinality(listeners(u, chat)) <= 1

\* C7 as claimed: while a user has a cached session, every source of the
\* persisted Rule Set has a listener on that session.
C7_AsClaimed ==
    \A u \in Users :
        "telethon_client" \in DOMAIN user_data[u] =>
            \A chat \in Chats :
                src_key_of(chat) \in DOMAIN persisted_rules(u) =>
                    \E l \in listeners(u, chat) : l[1] = user_data[u]["telethon_client"]

\* C8 as claimed: an event is relayed to a destination at most once.
C8_AsClaimed ==
    last.op = "new_message" =>
        \A dest \in Dests : Cardinality(relays_to(dest)) <= 1

\* C9 as claimed: an event on S is relayed only to destinations persisted
\* under S when it is dispatched.
C9_AsClaimed ==
    last.op = "new_message" =>
        \A i \in DOMAIN last.relays :
            last.relays[i].dest \in persisted_dests(last.user, last.chat)

----------------------------------------------------------------------------
(* Credentials: resubmission against a bound Credential record *)

\* credential submissions that differ from one another in one field at a time
CredentialResubmissions ==
    { <<"1", ",", "a", ",", "5">>,          \* 1,a,5
      <<"1", ",", "a", ",", "6">>,          \* 1,a,6: another phone
      <<"1", ",", "b", ",", "5">>,          \* 1,b,5: another api_hash
      <<"0", ",", "a", ",", "5">>,          \* 0,a,5: api_id 0
      <<"0", ",", "b", ",", "5">> }         \* 0,b,5: api_id 0, another api_hash

\* the handlers of the bot with the credential resubmissions and one rule
NextCred ==
    \/ start_webserver
    \/ main
    \/ restart
    \/ \E u \in Actors :
        \/ polling(start(u))
        \/ polling(cancel(u))
        \/ \E choice \in MenuChoices : polling(menu_choice(u, choice))
        \/ \E text \in CredentialResubmissions, net \in NetOutcomes :
              polling(set_credentials(u, text, net))
        \/ \E text \in CodeTexts, answer \in SignInOutcomes :
              polling(verify_code(u, text, answer))
        \/ \E text \in PasswordTexts : polling(verify_2fa(u, text))
        \/ polling(set_forwarding(u, <<"1", ",", "1">>))
        \/ polling(remove_rule(u, <<"1">>))
        \/ polling(remove_destination(u, <<"1">>))

SpecCred == Init /\ [][NextCred]_vars

\* u's file holds a Credential record
bound(u) ==
    {"api_id", "api_hash", "phone"} \subseteq DOMAIN load_user_config(file, u)

\* the persisted Credential record of u
persisted_credentials(u) ==
    LET config == load_user_config(file, u)
    IN  [api_id |-> config["api_id"], api_hash |-> config["api_hash"],
         phone |-> config["phone"]]

\* C11 as claimed: for a user with a bound Credential record, a submission in
\* which api_id, api_hash or phone differs from the record is rejected: no
\* client is connected and no code is requested.  Stated on the accepted
\* submissions: a code is requested only for the phone of the record.
C11_AsClaimed ==
    [][\A u \in Users :
        (/\ bound(u)
         /\ last'.op = "set_credentials" /\ last'.user = u
         /\ last'.res = "code_sent")
        => user_data'[u]["phone"] = persisted_credentials(u).phone]_vars

\* C12 as claimed: once a Credential record is persisted, no step changes any
\* of its fields.
C12_AsClaimed ==
    [][\A u \in Users :
        bound(u) => bound(u)' /\ persisted_credentials(u)' = persisted_credentials(u)]_vars

----------------------------------------------------------------------------
(* Start of the process *)

\* C13 as claimed: when TOKEN is absent at process start, neither the update
\* loop nor the web server is ever started.
C13_AsClaimed ==
    ~process.token => ~process.webserver /\ process.pc # "run_polling"

----------------------------------------------------------------------------
(* Login properties *)

\* the client cached as u's session, 0 when there is none
cached_session(u) ==
    IF "telethon_client" \in DOMAIN user_data[u] THEN user_data[u]["telethon_client"] ELSE 0

\* C14: a client becomes the cached session of u only in a step in which
\* sign_in with the code or the password succeeded on that client, the pending
\* one, or in which set_credentials found the new client already authorized by
\* the session file and get_me returned the account.
C14_SessionCachedOnlyWhenConfirmed ==
    [][\A u \in Users :
        (cached_session(u)' # 0 /\ cached_session(u)' # cached_session(u))
        => /\ last'.user = u
           /\ \/ /\ last'.op \in {"verify_code", "verify_2fa"}
                 /\ last'.res = "signed_in"
                 /\ cached_session(u)' = user_data[u]["temp_client"]
                 /\ authorized'[u]
              \/ /\ last'.op = "set_credentials"
                 /\ last'.res = "client_started"
                 /\ cached_session(u)' = Len(clients'[u])
                 /\ authorized[u]]_vars

\* set_credentials has cached a client that the session file authorized
C14_Witness ==
    /\ last.op = "set_credentials"
    /\ last.res = "client_started"
    /\ cached_session(last.user) = Len(clients[last.user])
    /\ authorized[last.user]

\* C15 as claimed: a user has at most one connected client, whatever login
\* attempts were made, abandoned or repeated.
C15_AsClaimed ==
    \A u \in Users : Len(clients[u]) <= 1

\* C16: the conversation enters VERIFY_2FA only when sign_in with the code
\* asked for the password; a wrong password leaves the conversation in
\* VERIFY_2FA and user_data as it was, with the pending client and no cached
\* session added; a correct password while the login is pending caches the
\* pending client as the session of an authorized user.
C16_PasswordStep ==
    [][\A u \in Users :
        /\ (conv'[u] = VERIFY_2FA /\ conv[u] # VERIFY_2FA /\ last'.op # "switch_chat")
           => (last'.op = "verify_code" /\ last'.user = u /\ last'.res = "password_needed")
        /\ (last'.op = "verify_2fa" /\ last'.user = u /\ ~login_expired(user_data[u]))
           => IF last'.note = "wrong_password"
              THEN /\ conv'[u] = VERIFY_2FA
                   /\ user_data'[u] = user_data[u]
                   /\ "temp_client" \in DOMAIN user_data'[u]
                   /\ authorized' = authorized
              ELSE /\ conv'[u] = MAIN_MENU
                   /\ cached_session(u)' = user_data[u]["temp_client"]
                   /\ "temp_client" \notin DOMAIN user_data'[u]
                   /\ authorized'[u]]_vars

\* a correct password, right after a wrong one, has signed the user in
C16_Witness ==
    /\ last.op = "verify_2fa"
    /\ last.retry
    /\ last.res = "signed_in"
    /\ cached_session(last.user) # 0
    /\ conv[last.user] = MAIN_MENU

----------------------------------------------------------------------------
(* Removal and validation: one user talking to the bot in two chats *)

\* the form handlers, with the user free to change between two chats; no code
\* is ever verified, so no session is cached and no listener registered
NextChats ==
    \/ start_webserver
    \/ main
    \/ restart
    \/ \E u \in Actors :
        \/ switch_chat(u)
        \/ polling(start(u))
        \/ polling(cancel(u))
        \/ \E choice \in MenuChoices : polling(menu_choice(u, choice))
        \/ \E text \in CredentialTexts, net \in NetOutcomes :
              polling(set_credentials(u, text, net))
        \/ \E text \in RuleTexts : polling(set_forwarding(u, text))
        \/ \E text \in SourceTexts : polling(remove_rule(u, text))
        \/ \E text \in DestTexts : polling(remove_destination(u, text))

SpecChats == Init /\ [][NextChats]_vars

\* the destinations persisted under the key src_key, none when the key is absent
persisted_list(u, src_key) ==
    IF src_key \in DOMAIN persisted_rules(u) THEN persisted_rules(u)[src_key] ELSE <<>>

\* C17: a removal that ends with a not-found answer (no rule for the source,
\* the remembered source no longer in the Rule Set, the destination not in the
\* source's list) leaves every file as it was and the conversation active; and
\* only a found source or destination is taken: remove_rule asks for the
\* destination only when the source is a key of the persisted Rule Set, and
\* remove_destination removes only when the persisted list of the remembered
\* source loses one entry.
C17_RemoveNotFound ==
    [][\A u \in Users :
        (last'.user = u /\ last'.op \in {"remove_rule", "remove_destination"})
        => /\ last'.res \in {"no_rule", "no_source", "not_set"}
              => (file' = file /\ conv'[u] # END)
           /\ last'.res = "ask_destination"
              => user_data'[u]["remove_source"] \in DOMAIN persisted_rules(u)
           /\ last'.res = "removed"
              => LET src_key == user_data[u]["remove_source"]
                 IN  /\ src_key \in DOMAIN persisted_rules(u)
                     /\ Len(persisted_list(u, src_key)') = Len(persisted_list(u, src_key)) - 1]_vars

\* remove_destination has answered that the destination is not set for the
\* source, whose list is persisted
C17_Witness ==
    /\ last.op = "remove_destination"
    /\ last.res = "not_set"
    /\ conv[last.user] = REMOVE_RULE_10
    /\ persisted_list(last.user, user_data[last.user]["remove_source"]) # <<>>

\* the step was a form handler of u that rejected its input: malformed text,
\* credentials that differ from the stored ones, a source with no rule, a
\* remembered source that is no longer in the Rule Set, a destination that is
\* not in the list
validation_failed(l, u) ==
    /\ l.user = u
    /\ l.op \in {"set_credentials", "set_forwarding", "remove_rule", "remove_destination"}
    /\ \/ l.res = "error" /\ l.note = "format"
       \/ l.res \in {"mismatch", "no_rule", "no_source", "not_set"}

\* C18 as claimed: a form input that fails validation re-enters the state the
\* conversation was in.
C18_AsClaimed ==
    [][\A u \in Users : validation_failed(last', u) => conv'[u] = conv[u]]_vars

\* text is no 'api_id,api_hash,phone', or u has stored credentials with
\* another api_id or api_hash
invalid_credentials(u, text) ==
    LET parts == parts_of(text)
    IN  \/ Len(parts) # 3
        \/ int_raises(parts[1])
        \/ /\ bound(u)
           /\ persisted_credentials(u).api_id # 0
           /\ persisted_credentials(u).api_hash # <<>>
           /\ \/ persisted_credentials(u).api_id # int(parts[1])
              \/ persisted_credentials(u).api_hash # parts[2]

\* text is no 'source,destination' pair of integers
invalid_rule(text) ==
    LET parts == parts_of(text)
    IN  Len(parts) # 2 \/ int_raises(parts[1]) \/ int_raises(parts[2])

\* text is no integer, or no rule is persisted for it as a source
invalid_source(u, text) ==
    int_raises(text) \/ PyS(str(int(text))) \notin DOMAIN persisted_rules(u)

\* the source remembered by remove_rule is no longer in the Rule Set
stale_source(u) ==
    \/ "remove_source" \notin DOMAIN user_data[u]
    \/ user_data[u]["remove_source"] \notin DOMAIN persisted_rules(u)

\* text is no integer, or it is not in the list of the remembered source
invalid_destination(u, text) ==
    \/ int_raises(text)
    \/ stale_source(u)
    \/ ~list_contains(persisted_list(u, user_data[u]["remove_source"]), int(text))

\* What the handlers do with a rejected input (checked under SpecChats, whose
\* credentials differ in api_id only): it is answered with an error and
\* re-enters the same state, with one exception: in the destination step of a
\* removal, an integer sent while the remembered source is no longer in the
\* Rule Set is answered with an error and the main menu.  No file changes in
\* either case.
rejected_input_answered ==
    [][\A u \in Users :
        /\ \A text \in CredentialTexts, net \in NetOutcomes :
              (set_credentials(u, text, net) /\ invalid_credentials(u, text))
              => (validation_failed(last', u) /\ conv'[u] = SET_CREDENTIALS /\ file' = file)
        /\ \A text \in RuleTexts :
              (set_forwarding(u, text) /\ invalid_rule(text))
              => (validation_failed(last', u) /\ conv'[u] = SET_FORWARDING /\ file' = file)
        /\ \A text \in SourceTexts :
              (remove_rule(u, text) /\ invalid_source(u, text))
              => (validation_failed(last', u) /\ conv'[u] = REMOVE_RULE /\ file' = file)
        /\ \A text \in DestTexts :
              (remove_destination(u, text) /\ invalid_destination(u, text))
              => /\ validation_failed(last', u)
                 /\ file' = file
                 /\ conv'[u] = IF ~int_raises(text) /\ stale_source(u)
                               THEN MAIN_MENU ELSE REMOVE_RULE_10]_vars

----------------------------------------------------------------------------
(* Frame of the Rule Set *)

\* C19: a step changes the persisted Rule Set of a user only if it is a
\* set_forwarding of that user that saved a new source or destination, or a
\* remove_destination of that user that removed one; every other step
\* (credentials, code, password, menu, chat listing, /cancel, restart of the
\* process) leaves it as it was.
C19_RuleSetFrame ==
    [][\A u \in Users :
        persisted_rules(u)' # persisted_rules(u)
        => /\ last'.user = u
           /\ \/ /\ last'.op = "set_forwarding"
                 /\ last'.res \in {"no_client", "registered"}
                 /\ last'.note \in {"created", "appended"}
              \/ /\ last'.op = "remove_destination"
                 /\ last'.res = "removed"]_vars

\* set_credentials has run for a user whose file holds rules and credentials
C19_Witness ==
    /\ last.op = "set_credentials"
    /\ last.res = "code_sent"
    /\ bound(last.user)
    /\ persisted_rules(last.user) # EmptyDict

----------------------------------------------------------------------------
(* Handlers as coroutines: interleaving at the awaits, main.py:245-256,      *)
(* 377-386, 463-479                                                          *)

\* The statements of the three handlers that save, from the load of the
\* configuration on, for an input that parsed.  "check" decides whether the
\* handler goes on to edit and save (commit) or only answers.
set_credentials_body ==
    <<"load", "check", "edit", "save", "connect", "is_user_authorized", "reply_text">>
set_forwarding_body ==
    <<"load", "check", "edit", "save", "reply_text", "send_main_menu">>
remove_destination_body ==
    <<"load", "check", "edit", "save", "reply_text", "send_main_menu">>

body(handler) ==
    CASE handler = "set_credentials" -> set_credentials_body
      [] handler = "set_forwarding" -> set_forwarding_body
      [] handler = "remove_destination" -> remove_destination_body

\* awaits that makes every statement a point where the coroutine is suspended
awaits_everywhere(stmt) == TRUE

\* the statements that are await expressions: a coroutine is suspended, and
\* another one may run, only there; load_user_config, the edit of the dict and
\* save_user_config are plain calls
awaits(stmt) ==
    stmt \in {"connect", "is_user_authorized", "reply_text", "send_main_menu"}

\* the handler invocations: a and b are source and destination of a rule; the
\* credentials are 1,a,5
Invocations ==
    { [handler |-> "set_forwarding", a |-> 1, b |-> 1],
      [handler |-> "set_forwarding", a |-> 1, b |-> 2],
      [handler |-> "remove_destination", a |-> 1, b |-> 1],
      [handler |-> "set_credentials", a |-> 1, b |-> 0] }

\* a handler coroutine before its load: config is its local variable, seen the
\* file as it was when the coroutine loaded it
NewTask(inv) ==
    [handler |-> inv.handler, a |-> inv.a, b |-> inv.b, pc |-> 1,
     config |-> EmptyDict, seen |-> NoFile, commit |-> FALSE,
     saved |-> FALSE, stale |-> FALSE]

\* main.py:246, 378-385 (always), 466-474
commits(task) ==
    CASE task.handler = "set_credentials" -> ~credentials_stored(task.config)
      [] task.handler = "set_forwarding" -> TRUE
      [] task.handler = "remove_destination" ->
            /\ src_key_of(task.a) \in DOMAIN rules_of(task.config)
            /\ list_contains(rules_of(task.config)[src_key_of(task.a)], task.b)

\* main.py:251-255, 378-385, 476-478
edited(task) ==
    CASE task.handler = "set_credentials" ->
            set_credentials_config(task.config, task.a, <<"a">>, <<"5">>)
      [] task.handler = "set_forwarding" ->
            set_forwarding_config(task.config, task.a, task.b)
      [] task.handler = "remove_destination" ->
            remove_destination_config(task.config, src_key_of(task.a), task.b)

\* one statement of the coroutine of u, on the file store f
exec(stmt, task, f, u) ==
    CASE stmt = "load" ->
            [task |-> [task EXCEPT !.config = load_user_config(f, u), !.seen = f[u]],
             f |-> f]
      [] stmt = "check" ->
            [task |-> [task EXCEPT !.commit = commits(task)], f |-> f]
      [] stmt = "edit" /\ task.commit ->
            [task |-> [task EXCEPT !.config = edited(task)], f |-> f]
      [] stmt = "save" /\ task.commit ->
            [task |-> [task EXCEPT !.saved = TRUE, !.stale = (f[u] # task.seen)],
             f |-> save_user_config(f, u, task.config)]
      [] OTHER -> [task |-> task, f |-> f]

\* the coroutine runs from its pc up to and including its next await, or to
\* its end
RECURSIVE run(_, _, _)
run(task, f, u) ==
    IF task.pc > Len(body(task.handler))
    THEN [task |-> task, f |-> f]
    ELSE LET stmt == body(task.handler)[task.pc]
             r == exec(stmt, task, f, u)
             next == [r.task EXCEPT !.pc = @ + 1]
         IN  IF awaits(stmt) THEN [task |-> next, f |-> r.f] ELSE run(next, r.f, u)

\* the sequence without its i-th element
drop(seq, i) == SubSeq(seq, 1, i - 1) \o SubSeq(seq, i + 1, Len(seq))

\* an update of u reaches one of the handlers while others of u are suspended
spawn(u, inv) ==
    /\ process.pc = "run_polling"
    /\ Len(tasks[u]) < MaxTasks
    /\ tasks' = [tasks EXCEPT ![u] = Append(@, NewTask(inv))]
    /\ last' = Ran("spawn", u, inv.handler, "")
    /\ UNCHANGED <<file, conv, other, user_data, clients, authorized, process>>

\* the event loop resumes the i-th coroutine of u; a coroutine at its end is
\* gone
resume(u, i) ==
    /\ process.pc = "run_polling"
    /\ i \in DOMAIN tasks[u]
    /\ LET r == run(tasks[u][i], file, u)
           saved_now == r.task.saved /\ ~tasks[u][i].saved
       IN  /\ file' = r.f
           /\ tasks' = [tasks EXCEPT ![u] =
                          IF r.task.pc > Len(body(r.task.handler))
                          THEN drop(@, i)
                          ELSE [@ EXCEPT ![i] = r.task]]
           /\ last' = Ran("resume", u, r.task.handler,
                          IF ~saved_now THEN ""
                          ELSE IF r.task.stale THEN "stale_save" ELSE "saved")
    /\ UNCHANGED <<conv, other, user_data, clients, authorized, process>>

NextAwait ==
    \/ start_webserver
    \/ main
    \/ restart
    \/ \E u \in Actors :
        \/ \E inv \in Invocations : spawn(u, inv)
        \/ \E i \in 1..MaxTasks : resume(u, i)

SpecAwait == Init /\ [][NextAwait]_vars

\* the position of the statement in the body, 0 when it is not there
position(stmt, handler) ==
    IF \E i \in DOMAIN body(handler) : body(handler)[i] = stmt
    THEN CHOOSE i \in DOMAIN body(handler) : body(handler)[i] = stmt
    ELSE 0

\* C20: with the coroutines of one user interleaved in every way the awaits
\* allow, no coroutine is suspended between its load and its save, and no
\* save writes a document that was loaded before another write to the file:
\* every save replaces the file as it was loaded.
C20_NoInterleavedWrite ==
    /\ last.note # "stale_save"
    /\ \A u \in Users : \A i \in DOMAIN tasks[u] :
          LET task == tasks[u][i]
          IN  /\ ~task.stale
              /\ task.pc > position("load", task.handler)
                 => task.pc > position("save", task.handler)

\* a coroutine has saved while another coroutine of the same user, which has
\* saved as well, is suspended
C20_Witness ==
    /\ last.op = "resume"
    /\ last.note = "saved"
    /\ \E i, j \in DOMAIN tasks[last.user] :
          /\ i # j
          /\ tasks[last.user][i].saved
          /\ tasks[last.user][j].saved
          /\ tasks[last.user][i].config # tasks[last.user][j].config

----------------------------------------------------------------------------
(* Creation of the Credential record *)

\* C21 as claimed: a set_credentials that fails, because the input is
\* malformed or because connect or send_code_request raises, persists no
\* Credential record for a user who had none.
C21_AsClaimed ==
    [][\A u \in Users :
        (/\ ~bound(u)
         /\ last'.op = "set_credentials" /\ last'.user = u
         /\ last'.res = "error")
        => ~bound(u)']_vars

----------------------------------------------------------------------------
(* Two users *)

\* both users log in, once each and with the same inputs, add and remove the
\* rule 1 -> 1 and receive messages on chat 1
NextUsers ==
    \/ start_webserver
    \/ main
    \/ \E u \in Users :
        \/ polling(start(u))
        \/ \E choice \in {"set_creds", "set_forward", "remove_rule"} :
              polling(menu_choice(u, choice))
        \/ \E net \in NetOutcomes :
              polling(clients[u] = <<>> /\ set_credentials(u, <<"1", ",", "a", ",", "5">>, net))
        \/ \E text \in CodeTexts, answer \in SignInOutcomes :
              polling(verify_code(u, text, answer))
        \/ \E text \in PasswordTexts : polling(verify_2fa(u, text))
        \/ polling(set_forwarding(u, <<"1", ",", "1">>))
        \/ polling(remove_rule(u, <<"1">>))
        \/ polling(remove_destination(u, <<"1">>))
        \/ polling(new_message(u, 1, {}))

SpecUsers == Init /\ [][NextUsers]_vars

\* what the bot holds for user b: the file, the conversation, user_data with
\* the pending login and the cached session, the clients with their
\* listeners, the session file
state_of(b) ==
    [file |-> file[b], conv |-> conv[b], user_data |-> user_data[b],
     clients |-> clients[b], authorized |-> authorized[b], tasks |-> tasks[b]]

\* C22: a step of user a leaves everything the bot holds for any other user b
\* as it was, and an event on a's session is relayed by the listeners
\* registered on a's own clients for the chat, once each, and by no other.
C22_UsersPartitioned ==
    [][\A a \in Users :
        last'.user = a
        => /\ \A b \in Users \ {a} : state_of(b)' = state_of(b)
           /\ last'.op = "new_message"
              => /\ Len(last'.relays) = Cardinality(listeners(a, last'.chat))
                 /\ \A i \in DOMAIN last'.relays :
                       \E l \in listeners(a, last'.chat) :
                          /\ l[1] = last'.relays[i].client
                          /\ clients[a][l[1]].handlers[l[2]].dest = last'.relays[i].dest]_vars

\* an event on the session of one user has been relayed while another user
\* has a listener for the same chat on a cached session of their own
C22_Witness ==
    /\ last.op = "new_message"
    /\ last.relays # <<>>
    /\ \E b \in Users \ {last.user} :
          /\ cached_session(b) # 0
          /\ listeners(b, last.chat) # {}
          /\ bound(b)

====
